---- MODULE Spec2Model ----
(***************************************************************************)
(* The LM Studio chat window: the React screen (Conversation Controller),  *)
(* the preload bridge and the ipcMain relay handler.                       *)
(*                                                                         *)
(* Two screens are modelled: src/src/App.tsx and the screen with persisted *)
(* settings of src/unnamed/part_000 (lines 924-1308; the two earlier       *)
(* copies in that file have the same handlers).                            *)
(*                                                                         *)
(* A JavaScript string is a sequence of tokens; " " is a whitespace        *)
(* character and "/" the path separator, every other token stands for a    *)
(* run of characters holding neither.  Japanese literals of the source are *)
(* transliterated, the original is given beside each.                      *)
(***************************************************************************)
EXTENDS Naturals, Sequences, FiniteSets, TLC

\* ----------------------------------------------------------------- bounds
\* a handler the user starts appends to the transcript only while it is
\* shorter than this, a send while it is not longer; the entry a call in flight
\* still owes is always appended
MaxMsgs == 1
\* the last reading of Date.now()
MaxClock == 1
\* a script of the window sends a message only while fewer than this many are
\* unanswered
MaxCalls == 2

\* ---------------------------------------------------------------- strings
WS == " "
SEP == "/"

RECURSIVE trimStart(_)
\* String.prototype.trim, leading half
trimStart(s) ==
  IF s # <<>> /\ Head(s) = WS THEN trimStart(Tail(s)) ELSE s

RECURSIVE trimEnd(_)
\* String.prototype.trim, trailing half
trimEnd(s) ==
  IF s # <<>> /\ s[Len(s)] = WS THEN trimEnd(SubSeq(s, 1, Len(s) - 1)) ELSE s

\* String.prototype.trim
trim(s) == trimEnd(trimStart(s))

\* String.prototype.endsWith for a one-character argument
endsWith(s, c) == s # <<>> /\ s[Len(s)] = c

\* String.prototype.includes
includes(s, sub) ==
  \E i \in 1..(Len(s) + 1) :
    /\ i + Len(sub) - 1 <= Len(s)
    /\ SubSeq(s, i, i + Len(sub) - 1) = sub

\* a || b on strings: the empty string is falsy
OrElse(a, b) == IF a # <<>> THEN a ELSE b

\* Number.prototype.toString for the numbers that occur
numStr(n) ==
  CASE n = 0 -> "0" [] n = 1 -> "1" [] n = 2 -> "2" [] n = 3 -> "3"
    [] n = 200 -> "200" [] n = 201 -> "201" [] n = 404 -> "404" [] n = 500 -> "500"

\* ---------------------------------------------------------- configuration
DEFAULT_CONFIG ==
  [baseUrl |-> <<"http:", SEP, SEP, "localhost:1234">>, model |-> <<"local-model">>]

\* the screens
AppTsx == "src/App.tsx"
AppPersisted == "part_000"
Screens == {AppTsx, AppPersisted}

\* the characters JSON gives a meaning to
QUOTE == "\""
BSL == "\\"
LBRACE == "{"
RBRACE == "}"
COLON == ":"
COMMA == ","

\* localStorage['lm_studio_config']: absent (getItem gives null), or a text
NoItem == [present |-> FALSE]
Item(t) == [present |-> TRUE, text |-> t]

\* the characters of a string written between the quotes as they are
escapeNothing(s) == s

RECURSIVE escape(_)
\* the characters of a string as JSON.stringify writes them between the quotes
escape(s) ==
  IF s = <<>> THEN <<>>
  ELSE IF Head(s) \in {QUOTE, BSL} THEN <<BSL, Head(s)>> \o escape(Tail(s))
  ELSE <<Head(s)>> \o escape(Tail(s))

\* JSON.stringify of a string
jsonQuote(s) == <<QUOTE>> \o escape(s) \o <<QUOTE>>

\* JSON.stringify of a configuration object
stringify(c) ==
  <<LBRACE>> \o jsonQuote(<<"baseUrl">>) \o <<COLON>> \o jsonQuote(c.baseUrl)
    \o <<COMMA>> \o jsonQuote(<<"model">>) \o <<COLON>> \o jsonQuote(c.model)
    \o <<RBRACE>>

\* a text JSON.parse throws on: an object that is cut off
BadText == <<LBRACE, QUOTE, "baseUrl">>

\* the text of null
NullText == <<"null">>

\* the text of an object without the model member
OnlyUrlText(u) == <<LBRACE>> \o jsonQuote(<<"baseUrl">>) \o <<COLON>> \o jsonQuote(u) \o <<RBRACE>>

\* what JSON.parse makes of a text: a SyntaxError, null, or an object of which
\* the members baseUrl and model are kept
ParseError == [ok |-> FALSE, isNull |-> FALSE, members |-> {}, baseUrl |-> <<>>, model |-> <<>>]
ParsedNull == [ok |-> TRUE, isNull |-> TRUE, members |-> {}, baseUrl |-> <<>>, model |-> <<>>]
EmptyObject == [ok |-> TRUE, isNull |-> FALSE, members |-> {}, baseUrl |-> <<>>, model |-> <<>>]

\* the object with the member k set to v; a later member of the same name wins
withMember(obj, k, v) ==
  IF k = <<"baseUrl">> THEN [obj EXCEPT !.members = @ \cup {"baseUrl"}, !.baseUrl = v]
  ELSE IF k = <<"model">> THEN [obj EXCEPT !.members = @ \cup {"model"}, !.model = v]
  ELSE obj

RECURSIVE readChars(_, _, _)
\* JSON.parse inside a string, t[j] being its next character: the string read
\* and the position behind its closing quote
readChars(t, j, acc) ==
  IF j > Len(t) THEN [ok |-> FALSE, value |-> <<>>, next |-> j]
  ELSE IF t[j] = QUOTE THEN [ok |-> TRUE, value |-> acc, next |-> j + 1]
  ELSE IF t[j] = BSL
    THEN IF j + 1 <= Len(t) /\ t[j + 1] \in {QUOTE, BSL}
           THEN readChars(t, j + 2, Append(acc, t[j + 1]))
           ELSE [ok |-> FALSE, value |-> <<>>, next |-> j]
  ELSE readChars(t, j + 1, Append(acc, t[j]))

\* JSON.parse of a string that starts at t[i]
readString(t, i) ==
  IF i <= Len(t) /\ t[i] = QUOTE THEN readChars(t, i + 1, <<>>)
  ELSE [ok |-> FALSE, value |-> <<>>, next |-> i]

RECURSIVE readMembers(_, _, _)
\* JSON.parse of the members of an object, t[i] being the start of the next one
readMembers(t, i, obj) ==
  LET k == readString(t, i)
      v == readString(t, k.next + 1)
  IN IF ~k.ok \/ k.next > Len(t) \/ t[k.next] # COLON THEN ParseError
     ELSE IF ~v.ok \/ v.next > Len(t) THEN ParseError
     ELSE IF t[v.next] = COMMA THEN readMembers(t, v.next + 1, withMember(obj, k.value, v.value))
     ELSE IF t[v.next] = RBRACE /\ v.next = Len(t) THEN withMember(obj, k.value, v.value)
     ELSE ParseError

\* JSON.parse, for the texts that occur: null, and objects whose members are
\* strings
parse(t) ==
  IF t = NullText THEN ParsedNull
  ELSE IF t = <<LBRACE, RBRACE>> THEN EmptyObject
  ELSE IF t # <<>> /\ Head(t) = LBRACE THEN readMembers(t, 2, EmptyObject)
  ELSE ParseError

\* parsed.<name> || DEFAULT_CONFIG.<name>
memberOr(obj, name, dflt) ==
  IF name \in obj.members
    THEN OrElse(IF name = "baseUrl" THEN obj.baseUrl ELSE obj.model, dflt)
    ELSE dflt

\* the initializer of useState<LMStudioConfig>: the empty text is falsy, a
\* SyntaxError and the TypeError of null.baseUrl are caught
loadConfig(scr, item) ==
  IF scr = AppTsx THEN DEFAULT_CONFIG
  ELSE IF ~item.present THEN DEFAULT_CONFIG
  ELSE IF item.text = <<>> THEN DEFAULT_CONFIG
  ELSE IF ~parse(item.text).ok THEN DEFAULT_CONFIG
  ELSE IF parse(item.text).isNull THEN DEFAULT_CONFIG
  ELSE [baseUrl |-> memberOr(parse(item.text), "baseUrl", DEFAULT_CONFIG.baseUrl),
        model |-> memberOr(parse(item.text), "model", DEFAULT_CONFIG.model)]

\* what the user can type into the message box
InputTexts == { <<WS>>, <<WS, "hello", WS>> }

\* what the user can type into the API URL field: a blank, and the default URL
\* behind a blank and with a trailing separator
BaseUrlTexts == { <<WS>>, <<WS>> \o DEFAULT_CONFIG.baseUrl \o <<SEP>> }

\* what the user can type into the model name field
ModelTexts == { <<WS>> }

\* what localStorage can hold when the window opens
StoredItems ==
  { NoItem, Item(BadText),
    Item(stringify([baseUrl |-> DEFAULT_CONFIG.baseUrl \o <<SEP>>, model |-> <<"gpt">>])) }

\* what the settings are explored with on their own: the fields empty, blank,
\* with blanks around a value, and holding the characters JSON escapes
SettingsUrlTexts ==
  { <<>>, <<WS, WS>>, <<WS, "http:", SEP, SEP, "host:8080", WS>> }
SettingsModelTexts ==
  { <<>>, <<WS>>, <<WS, "gpt", WS>>, <<"my", QUOTE, "model", BSL>> }

\* what localStorage can hold when the settings are explored on their own
SettingsStoredItems ==
  StoredItems \cup
    { Item(NullText), Item(OnlyUrlText(<<"http:", SEP, SEP, "host:8080">>)),
      Item(<<LBRACE, RBRACE>>) }

\* ------------------------------------------------------------ JSON values
\* a decoded JSON value as the handlers look at it: null, or an object with
\* some of the members choices and data
JNull == [truthy |-> FALSE, members |-> {}, choices |-> <<>>, data |-> <<>>]
JObject(ms, cs, ds) == [truthy |-> TRUE, members |-> ms, choices |-> cs, data |-> ds]

\* a choice: {}, {message: {}} or {message: {content: c}}
ChoiceBare == [members |-> {}, msgMembers |-> {}, content |-> <<>>]
ChoiceNoContent == [members |-> {"message"}, msgMembers |-> {}, content |-> <<>>]
Choice(c) == [members |-> {"message"}, msgMembers |-> {"content"}, content |-> c]

\* a model descriptor of GET /v1/models
ModelId(i) == [members |-> {"id"}, id |-> <<i>>, name |-> <<>>]
ModelName(n) == [members |-> {"name"}, id |-> <<>>, name |-> <<n>>]

\* the response bodies the server can send: a text that is not JSON, or a value
BadBody == [wellFormed |-> FALSE, value |-> JNull]
Body(v) == [wellFormed |-> TRUE, value |-> v]
Bodies ==
  { BadBody,
    Body(JNull),
    Body(JObject({}, <<>>, <<>>)),
    Body(JObject({"choices"}, <<>>, <<>>)),
    Body(JObject({"choices"}, <<ChoiceBare>>, <<>>)),
    Body(JObject({"choices"}, <<ChoiceNoContent>>, <<>>)),
    Body(JObject({"choices"}, <<Choice(<<>>)>>, <<>>)),
    Body(JObject({"choices"}, <<Choice(<<"hi">>), Choice(<<"there">>)>>, <<>>)),
    Body(JObject({"data"}, <<>>, <<ModelId("m1"), ModelName("m2")>>)) }

\* what fetch can do: fail, or answer with a status and a body
NetFail == [failed |-> TRUE, status |-> 0, body |-> BadBody]
Answer(st, b) == [failed |-> FALSE, status |-> st, body |-> b]
HttpOutcomes ==
  {NetFail, Answer(500, BadBody)} \cup {Answer(200, b) : b \in Bodies}
    \cup { Answer(404, Body(JObject({"choices"}, <<Choice(<<"not found">>)>>, <<>>))),
           Answer(201, Body(JObject({"choices"}, <<Choice(<<"created">>)>>, <<>>))) }

\* the two outcomes every interleaving is explored with: a transport failure
\* and a well-formed reply
CommonOutcomes ==
  { Answer(500, BadBody),
    Answer(200, Body(JObject({"choices"}, <<Choice(<<"hi">>), Choice(<<"there">>)>>, <<>>))) }

\* ------------------------------------------------------------------ relay
\* a promise: not settled, resolved with { type: 'json', data }, or rejected
\* with an error of a name and a message
Resolved(d) ==
  [settled |-> "resolved", type |-> "json", data |-> d, name |-> "", message |-> <<>>]
Rejected(n, m) ==
  [settled |-> "rejected", type |-> "", data |-> JNull, name |-> n, message |-> m]
Unsettled == [settled |-> "no", type |-> "", data |-> JNull, name |-> "", message |-> <<>>]

\* no status check: every answer counts as a success
responseOkAlways(st) == TRUE

\* Response.ok
responseOk(st) == st >= 200 /\ st <= 299

\* a handler that calls fetch a second time when the first call failed
relayFetchesRetrying(http) == IF http.failed \/ ~responseOk(http.status) THEN 2 ELSE 1

\* how often the relay handler calls fetch for one message: its body holds one
\* call and no loop
relayFetches(http) == 1

\* ipcMain.handle('call-lm-studio-api'): one fetch, then the status check, then
\* response.json(); every failure is rethrown
relayHandle(http) ==
  IF http.failed THEN Rejected("TypeError", <<"fetch failed">>)
  ELSE IF ~responseOk(http.status)
    THEN Rejected("Error", <<"HTTP error! status: ", numStr(http.status)>>)
  ELSE IF ~http.body.wellFormed THEN Rejected("SyntaxError", <<"Unexpected token in JSON">>)
  ELSE Resolved(http.body.value)

\* ----------------------------------------------------------------- bridge
\* the channel ipcMain.handle registers the relay handler on
RelayChannel == "call-lm-studio-api"

\* the functions the preload script puts on window
CallLMStudioAPI == "electronAPI.callLMStudioAPI"
IpcInvoke == "ipcRenderer.invoke"
IpcSend == "ipcRenderer.send"

WindowFetch == "fetch"

\* webPreferences.webSecurity of the window
webSecurity == FALSE

\* the channels a script of the window can name; the relay handler's is the
\* only one the main process listens on
Channels == {RelayChannel, "any-channel"}
NoChannel == "none"

\* what a script of the window can call to get a message out of the UI
\* process: the functions contextBridge.exposeInMainWorld puts on window, each
\* with the channels it can be given, and fetch when the same-origin policy is
\* switched off
Senders ==
  { [api |-> CallLMStudioAPI, kind |-> "invoke", channels |-> {RelayChannel}],
    [api |-> IpcInvoke, kind |-> "invoke", channels |-> Channels],
    [api |-> IpcSend, kind |-> "send", channels |-> Channels] }
  \cup (IF webSecurity THEN {}
        ELSE {[api |-> WindowFetch, kind |-> "fetch", channels |-> {NoChannel}]})

\* a message of the UI process to the main process
IpcMessage(k, ch, a) == [kind |-> k, channel |-> ch, args |-> a]

\* callLMStudioAPI with the body of the descriptor left behind
callLMStudioAPIDroppingBody(params) ==
  IpcMessage("invoke", RelayChannel, [params EXCEPT !.body = [present |-> FALSE]])

\* electronAPI.callLMStudioAPI: (params) => ipcRenderer.invoke(channel, params)
callLMStudioAPI(params) == IpcMessage("invoke", RelayChannel, params)

\* what the promise of ipcRenderer.invoke settles to when the handler's has
\* settled to r: the value returned, or an Error that holds the channel and
\* the text of the error thrown
invokeSettles(ch, r) ==
  IF r.settled = "rejected"
    THEN Rejected("Error", <<"Error invoking remote method '", ch, "': ", r.name, ": ">>
                             \o r.message)
    ELSE r

\* ------------------------------------------------------------- controller
\* the endpoint of sendMessage
chatUrl(scr, baseUrl) ==
  IF scr = AppTsx THEN baseUrl \o <<SEP, "v1", SEP, "chat", SEP, "completions">>
  ELSE IF endsWith(baseUrl, SEP)
    THEN baseUrl \o <<"v1", SEP, "chat", SEP, "completions">>
    ELSE baseUrl \o <<SEP, "v1", SEP, "chat", SEP, "completions">>

\* the endpoint of testConnection
modelsUrl(scr, baseUrl) ==
  IF scr = AppTsx THEN baseUrl \o <<SEP, "v1", SEP, "models">>
  ELSE IF endsWith(baseUrl, SEP)
    THEN baseUrl \o <<"v1", SEP, "models">>
    ELSE baseUrl \o <<SEP, "v1", SEP, "models">>

\* the history cut down to the message just typed
conversationHistoryLastOnly(ms) ==
  <<[role |-> ms[Len(ms)].role, content |-> ms[Len(ms)].content]>>

\* [...messages, userMessage].map(msg => ({role, content}))
conversationHistory(ms) ==
  [i \in 1..Len(ms) |-> [role |-> ms[i].role, content |-> ms[i].content]]

\* a descriptor without a body
NoBody == [present |-> FALSE]
chatBody(cfg, ms) ==
  [present |-> TRUE, model |-> cfg.model, messages |-> conversationHistory(ms),
   temperature |-> "0.7", max_tokens |-> 1000, stream |-> FALSE]

\* a Message
Message(i, r, c, t) == [id |-> i, role |-> r, content |-> c, timestamp |-> t]

\* 'エラー: レスポンスが空です'
EmptyReply == <<"ERROR: the response is empty">>
\* '無効なレスポンス形式' (sendMessage), '無効なレスポンス' (testConnection)
InvalidFormat == <<"invalid response format">>
InvalidResponse == <<"invalid response">>
\* the message of the TypeError of undefined[0]
NoChoicesError == <<"Cannot read properties of undefined (reading '0')">>
\* 'エラーが発生しました: '
ErrorPrefix == <<"An error occurred: ">>

\* the content of the last choice instead of the first
lastContent(d) ==
  IF d.choices = <<>> THEN <<>>
  ELSE IF "message" \notin d.choices[Len(d.choices)].members THEN <<>>
  ELSE IF "content" \notin d.choices[Len(d.choices)].msgMembers THEN <<>>
  ELSE d.choices[Len(d.choices)].content

\* response.data.choices[0]?.message?.content
firstContent(d) ==
  IF d.choices = <<>> THEN <<>>
  ELSE IF "message" \notin d.choices[1].members THEN <<>>
  ELSE IF "content" \notin d.choices[1].msgMembers THEN <<>>
  ELSE d.choices[1].content

\* the content sendMessage appends in its catch block
sendErrorContent(scr, cfg, msg) ==
  IF scr = AppTsx THEN ErrorPrefix \o msg
  ELSE ErrorPrefix \o msg \o <<"\n\nCheck the settings:\n- API URL: ">>
         \o cfg.baseUrl \o <<"\n- model: ">> \o cfg.model

\* the content of the assistant Message sendMessage appends once the promise
\* has settled to res: the try block's, or the catch block's if it threw
sendReplyContent(scr, cfg, res) ==
  IF res.settled = "rejected" THEN sendErrorContent(scr, cfg, res.message)
  ELSE IF ~(res.type = "json" /\ res.data.truthy)
    THEN sendErrorContent(scr, cfg, InvalidFormat)
  ELSE IF "choices" \notin res.data.members
    THEN sendErrorContent(scr, cfg, NoChoicesError)
  ELSE OrElse(firstContent(res.data), EmptyReply)

RECURSIVE join(_)
\* Array.prototype.join(', ') of a list of strings
join(ss) ==
  IF ss = <<>> THEN <<>>
  ELSE IF Len(ss) = 1 THEN ss[1]
  ELSE ss[1] \o <<", ">> \o join(Tail(ss))

\* m.id || m.name || '不明'
modelLabel(m) ==
  OrElse(IF "id" \in m.members THEN m.id ELSE <<>>,
         OrElse(IF "name" \in m.members THEN m.name ELSE <<>>, <<"unknown">>))

\* response.data.data || []
modelsOf(d) == IF "data" \in d.members THEN d.data ELSE <<>>

\* '✅ 接続成功！\n\nAPI URL: ' and '❌ 接続エラー\n\nAPI URL: '
TestOkPrefix == <<"OK connected\n\nAPI URL: ">>
TestErrorPrefix == <<"NG connection error\n\nAPI URL: ">>

\* the content testConnection (part_000) appends once the promise has settled
testReplyContent(cfg, res) ==
  IF res.settled = "rejected"
    THEN TestErrorPrefix \o cfg.baseUrl
           \o <<"\nerror: ">> \o res.message \o <<"\n\nCheck the settings.">>
  ELSE IF ~(res.type = "json" /\ res.data.truthy)
    THEN TestErrorPrefix \o cfg.baseUrl
           \o <<"\nerror: ">> \o InvalidResponse \o <<"\n\nCheck the settings.">>
  ELSE TestOkPrefix \o cfg.baseUrl
         \o <<"\nmodels: ", numStr(Len(modelsOf(res.data))), "\nlist: ">>
         \o OrElse(join([i \in 1..Len(modelsOf(res.data)) |->
                           modelLabel(modelsOf(res.data)[i])]), <<"none">>)

\* the text testConnection (src/App.tsx) alerts once the promise has settled
testAlertText(res) ==
  IF res.settled = "rejected" THEN <<"connection error: ">> \o res.message
  ELSE IF ~(res.type = "json" /\ res.data.truthy)
    THEN <<"connection error: ">> \o InvalidResponse
  ELSE <<"connected\nmodels: ", numStr(Len(modelsOf(res.data)))>>

\* ------------------------------------------------------------------ state
VARIABLES
  screen,      \* which screen is mounted
  messages,    \* useState<Message[]>
  input,       \* useState('') of the message box
  isLoading,   \* useState(false): the busy flag
  config,      \* useState<LMStudioConfig>: the active configuration
  tempConfig,  \* useState<LMStudioConfig>(config): the staged copy (part_000)
  showConfig,  \* useState(false): the settings panel is open
  storage,     \* localStorage['lm_studio_config']
  pending,     \* the calls of callLMStudioAPI whose await has not resumed
  now,         \* Date.now()
  notice,      \* the text of the alert the last handler raised, or <<>>
  dropped      \* the handler whose invocation was just refused, or "none"

vars ==
  <<screen, messages, input, isLoading, config, tempConfig, showConfig, storage,
    pending, now, notice, dropped>>

\* a call in flight: the descriptor given to the bridge, the configuration the
\* handler's closure holds, and what the promise has settled to
\* a message of the UI process the main process has not answered, or whose
\* answer the sender has not taken up: who sent it (o) through which function
\* of window (f), the message (msg), and for a handler of the screen the
\* descriptor (d) and the configuration its closure holds (cfg); then what the
\* relay handler was given, how often it called fetch, what its promise settled
\* to and what the promise of the sender settled to
Call(o, f, msg, d, cfg) ==
  [op |-> o, api |-> f, sent |-> msg, descriptor |-> d, config |-> cfg,
   received |-> [endpoint |-> <<>>, method |-> "", body |-> [present |-> FALSE]],
   fetches |-> 0, outcome |-> Unsettled, result |-> Unsettled]

\* a call of window.electronAPI.callLMStudioAPI by a handler of the screen
Request(o, d, cfg) == Call(o, CallLMStudioAPI, callLMStudioAPI(d), d, cfg)

Descriptor(e, m, b) == [endpoint |-> e, method |-> m, body |-> b]

\* the model lets the user start a handler that appends to the transcript
Room == Len(messages) < MaxMsgs

\* a send is started behind a transcript of up to that length, so that it has
\* a history to send along
SendRoom == Len(messages) <= MaxMsgs

\* s without its i-th element
RemoveAt(s, i) == SubSeq(s, 1, i - 1) \o SubSeq(s, i + 1, Len(s))

Init ==
  /\ screen \in Screens
  /\ storage \in (IF screen = AppTsx THEN {NoItem} ELSE StoredItems)
  /\ config = loadConfig(screen, storage)
  /\ tempConfig = config
  /\ messages = <<>>
  /\ input = <<>>
  /\ isLoading = FALSE
  /\ showConfig = FALSE
  /\ pending = <<>>
  /\ now = 0
  /\ notice = <<>>
  /\ dropped = "none"

\* time passes
Tick ==
  /\ now < MaxClock
  /\ now' = now + 1
  /\ UNCHANGED <<screen, messages, input, isLoading, config, tempConfig, showConfig,
                 storage, pending, notice, dropped>>

\* onChange of the message box; the box is disabled while isLoading
setInput(v) ==
  /\ ~isLoading
  /\ input' = v
  /\ notice' = <<>>
  /\ dropped' = "none"
  /\ UNCHANGED <<screen, messages, isLoading, config, tempConfig, showConfig,
                 storage, pending, now>>

\* the early return without its isLoading test
sendRefusedIgnoringBusy(inp, busy) == trim(inp) = <<>>

\* the early return testing the text as typed: if (!input || isLoading) return
sendRefusedUntrimmed(inp, busy) == inp = <<>> \/ busy

\* the early return of sendMessage
sendRefused(inp, busy) == trim(inp) = <<>> \/ busy

\* setMessages(prev => [...prev, m]) with the entries dropped instead of kept
appendMessageReplacing(prev, m) == <<m>>

\* setMessages(prev => [m, ...prev]): the newest entry first
appendMessagePrepending(prev, m) == <<m>> \o prev

\* setMessages(prev => [...prev, m])
appendMessage(prev, m) == Append(prev, m)

\* setIsLoading(true) left out
loadingOnDispatchForgotten == FALSE

\* setIsLoading(true) of sendMessage and of testConnection
loadingOnDispatch == TRUE

\* userMessage of sendMessage, made at time t from the text of the message box
userMessage(inp, t) == Message(t, "user", trim(inp), t)

\* assistantMessage and errorMessage of sendMessage, made at time t
assistantMessage(c, t) == Message(t + 1, "assistant", c, t)

\* sendMessage up to its await
sendMessage ==
  /\ notice' = <<>>
  /\ IF sendRefused(input, isLoading)
       THEN /\ dropped' = "sendMessage"
            /\ UNCHANGED <<messages, input, isLoading, pending>>
       ELSE /\ SendRoom
            /\ dropped' = "none"
            /\ messages' = appendMessage(messages, userMessage(input, now))
            /\ input' = <<>>
            /\ isLoading' = loadingOnDispatch
            /\ pending' = Append(pending,
                 Request("sendMessage",
                         Descriptor(chatUrl(screen, config.baseUrl), "POST",
                                    chatBody(config,
                                             Append(messages, userMessage(input, now)))),
                         config))
  /\ UNCHANGED <<screen, config, tempConfig, showConfig, storage, now>>

\* a button that is never disabled
testNeverDisabled(busy) == FALSE

\* disabled={isLoading} of the button whose onClick is testConnection
testDisabled(busy) == busy

\* a click on the connection test button: testConnection up to its await
testConnection ==
  /\ notice' = <<>>
  /\ IF testDisabled(isLoading)
       THEN /\ dropped' = "testConnection"
            /\ UNCHANGED <<isLoading, pending>>
       ELSE /\ Room
            /\ dropped' = "none"
            /\ isLoading' = loadingOnDispatch
            /\ pending' = Append(pending,
                 Request("testConnection",
                         Descriptor(modelsUrl(screen, config.baseUrl), "GET", NoBody),
                         config))
  /\ UNCHANGED <<screen, messages, input, config, tempConfig, showConfig, storage, now>>

\* a handler that works on a module-level variable holding the descriptor
\* delivered last
handlerArgsShared(calls, i) == calls[Len(calls)].sent.args

\* the descriptor an invocation of the handler works on: { endpoint, method,
\* body } are parameters of the invocation, taken from its own argument
handlerArgs(calls, i) == calls[i].sent.args

\* the relay handler runs for the i-th call: the HTTP exchange ends as http and
\* the promise settles
relayExecute(i, http) ==
  /\ pending[i].result.settled = "no"
  /\ pending[i].sent.kind = "invoke"
  /\ pending[i].sent.channel = RelayChannel
  /\ pending' = [pending EXCEPT
       ![i].received = handlerArgs(pending, i),
       ![i].fetches = pending[i].fetches + relayFetches(http),
       ![i].outcome = relayHandle(http),
       ![i].result = invokeSettles(pending[i].sent.channel, relayHandle(http))]
  /\ UNCHANGED <<screen, messages, input, isLoading, config, tempConfig, showConfig,
                 storage, now, notice, dropped>>

\* what a script of the window asks for
ScriptDescriptor ==
  Descriptor(<<"http:", SEP, SEP, "intranet.example">>, "POST", NoBody)

\* a script of the window calls one of the functions it finds on window
scriptCall(f, ch) ==
  /\ Len(pending) < MaxCalls
  /\ ch \in f.channels
  /\ pending' = Append(pending,
       Call("script", f.api, IpcMessage(f.kind, ch, ScriptDescriptor),
            ScriptDescriptor, config))
  /\ UNCHANGED <<screen, messages, input, isLoading, config, tempConfig, showConfig,
                 storage, now, notice, dropped>>

\* the script is done with its call: the promise of an invoke on the relay's
\* channel has settled; on another channel there is no handler, a send is not
\* answered, and a fetch has come back
scriptResume(i) ==
  /\ pending[i].op = "script"
  /\ (pending[i].sent.kind = "invoke" /\ pending[i].sent.channel = RelayChannel) =>
       pending[i].result.settled # "no"
  /\ pending' = RemoveAt(pending, i)
  /\ UNCHANGED <<screen, messages, input, isLoading, config, tempConfig, showConfig,
                 storage, now, notice, dropped>>

\* a finally block that leaves isLoading set
finallyLoadingKept == TRUE

\* what the finally block of sendMessage and of testConnection leaves in isLoading
finallyLoading == FALSE

\* a continuation that reads the configuration of the latest render
closureConfigLatest(captured, current) == current

\* the config a continuation reads: the one of the render whose handler was
\* invoked (captured), whatever the state holds by now (current)
closureConfig(captured, current) == captured

\* sendMessage from its await on: the reply or the error entry, then finally
sendMessageResume(i) ==
  /\ pending[i].op = "sendMessage"
  /\ pending[i].result.settled # "no"
  /\ messages' = appendMessage(messages,
       assistantMessage(sendReplyContent(screen, closureConfig(pending[i].config, config),
                                         pending[i].result),
                        now))
  /\ isLoading' = finallyLoading
  /\ pending' = RemoveAt(pending, i)
  /\ notice' = <<>>
  /\ dropped' = "none"
  /\ UNCHANGED <<screen, input, config, tempConfig, showConfig, storage, now>>

\* testConnection from its await on
testConnectionResume(i) ==
  /\ pending[i].op = "testConnection"
  /\ pending[i].result.settled # "no"
  /\ IF screen = AppTsx
       THEN /\ notice' = testAlertText(pending[i].result)
            /\ UNCHANGED messages
       ELSE /\ notice' = <<>>
            /\ messages' = appendMessage(messages,
                 Message(now, "assistant",
                         testReplyContent(closureConfig(pending[i].config, config),
                                          pending[i].result), now))
  /\ isLoading' = finallyLoading
  /\ pending' = RemoveAt(pending, i)
  /\ dropped' = "none"
  /\ UNCHANGED <<screen, input, config, tempConfig, showConfig, storage, now>>

\* setMessages(prev => prev.slice(0, 1)): the first entry survives
clearedButFirst(ms) == IF ms = <<>> THEN ms ELSE <<ms[1]>>

\* what clearChat leaves in the transcript
cleared(ms) == <<>>

\* a clear button with disabled={isLoading}
clearDisabledWhileBusy(busy) == busy

\* the button whose onClick is clearChat has no disabled attribute
clearDisabled(busy) == FALSE

clearChat ==
  /\ ~clearDisabled(isLoading)
  /\ messages' = cleared(messages)
  /\ notice' = <<>>
  /\ dropped' = "none"
  /\ UNCHANGED <<screen, input, isLoading, config, tempConfig, showConfig, storage,
                 pending, now>>

\* the settings button: toggleConfigPanel (part_000), setShowConfig(!showConfig)
\* (src/App.tsx)
toggleConfigPanel ==
  /\ tempConfig' = IF screen = AppPersisted /\ ~showConfig THEN config ELSE tempConfig
  /\ showConfig' = ~showConfig
  /\ notice' = <<>>
  /\ dropped' = "none"
  /\ UNCHANGED <<screen, messages, input, isLoading, config, storage, pending, now>>

\* the cancel button of the settings panel (part_000)
cancelConfig ==
  /\ screen = AppPersisted
  /\ showConfig
  /\ showConfig' = FALSE
  /\ notice' = <<>>
  /\ dropped' = "none"
  /\ UNCHANGED <<screen, messages, input, isLoading, config, tempConfig, storage,
                 pending, now>>

\* onChange of the API URL field: into tempConfig (part_000), into config
\* (src/App.tsx)
editBaseUrl(v) ==
  /\ showConfig
  /\ IF screen = AppPersisted
       THEN /\ tempConfig' = [tempConfig EXCEPT !.baseUrl = v]
            /\ UNCHANGED config
       ELSE /\ config' = [config EXCEPT !.baseUrl = v]
            /\ UNCHANGED tempConfig
  /\ notice' = <<>>
  /\ dropped' = "none"
  /\ UNCHANGED <<screen, messages, input, isLoading, showConfig, storage, pending, now>>

\* onChange of the model name field
editModel(v) ==
  /\ showConfig
  /\ IF screen = AppPersisted
       THEN /\ tempConfig' = [tempConfig EXCEPT !.model = v]
            /\ UNCHANGED config
       ELSE /\ config' = [config EXCEPT !.model = v]
            /\ UNCHANGED tempConfig
  /\ notice' = <<>>
  /\ dropped' = "none"
  /\ UNCHANGED <<screen, messages, input, isLoading, showConfig, storage, pending, now>>

\* finalConfig with the defaults taken for both fields as soon as one is blank
finalConfigJoint(staged) ==
  IF trim(staged.baseUrl) = <<>> \/ trim(staged.model) = <<>>
    THEN DEFAULT_CONFIG
    ELSE [baseUrl |-> trim(staged.baseUrl), model |-> trim(staged.model)]

\* finalConfig of saveConfig
finalConfig(staged) ==
  [baseUrl |-> OrElse(trim(staged.baseUrl), DEFAULT_CONFIG.baseUrl),
   model |-> OrElse(trim(staged.model), DEFAULT_CONFIG.model)]

\* setConfig called behind localStorage.setItem: skipped when the write throws
configOnSaveAfterWrite(old, final, writeOk) == IF writeOk THEN final ELSE old

\* the active configuration saveConfig leaves: setConfig(finalConfig) is called
\* before localStorage.setItem and takes effect whether or not the write throws
configOnSave(old, final, writeOk) == final

\* '設定の保存に失敗しました'
SaveFailedNotice == <<"failed to save the settings">>

\* '設定を保存しました\n・API URL: '
SavedPrefix == <<"settings saved\n- API URL: ">>

\* saveConfig; writeOk: localStorage.setItem does not throw
saveConfig(writeOk) ==
  /\ screen = AppPersisted
  /\ showConfig
  /\ config' = configOnSave(config, finalConfig(tempConfig), writeOk)
  /\ IF writeOk
       THEN /\ Room
            /\ storage' = Item(stringify(finalConfig(tempConfig)))
            /\ showConfig' = FALSE
            /\ messages' = appendMessage(messages,
                 Message(now, "assistant",
                         SavedPrefix \o finalConfig(tempConfig).baseUrl
                           \o <<"\n- model: ">> \o finalConfig(tempConfig).model,
                         now))
            /\ notice' = <<>>
       ELSE /\ notice' = SaveFailedNotice
            /\ UNCHANGED <<storage, showConfig, messages>>
  /\ dropped' = "none"
  /\ UNCHANGED <<screen, input, isLoading, tempConfig, pending, now>>

\* localStorage.removeItem left out
removeItemSkipped(item) == item

\* localStorage.removeItem(CONFIG_STORAGE_KEY)
removeItem(item) == NoItem

\* '設定をデフォルトに戻しました\n・API URL: '
ResetPrefix == <<"settings reset to the defaults\n- API URL: ">>

resetConfig ==
  /\ screen = AppPersisted
  /\ showConfig
  /\ Room
  /\ tempConfig' = DEFAULT_CONFIG
  /\ config' = DEFAULT_CONFIG
  /\ storage' = removeItem(storage)
  /\ messages' = appendMessage(messages,
       Message(now, "assistant",
               ResetPrefix \o DEFAULT_CONFIG.baseUrl
                 \o <<"\n- model: ">> \o DEFAULT_CONFIG.model,
               now))
  /\ notice' = <<>>
  /\ dropped' = "none"
  /\ UNCHANGED <<screen, input, isLoading, showConfig, pending, now>>

Next ==
  \/ Tick
  \/ \E v \in InputTexts : setInput(v)
  \/ sendMessage
  \/ testConnection
  \/ \E i \in 1..Len(pending), http \in CommonOutcomes : relayExecute(i, http)
  \/ \E i \in 1..Len(pending) : sendMessageResume(i)
  \/ \E i \in 1..Len(pending) : testConnectionResume(i)
  \/ clearChat
  \/ toggleConfigPanel
  \/ cancelConfig
  \/ \E v \in BaseUrlTexts : editBaseUrl(v)
  \/ \E v \in ModelTexts : editModel(v)
  \/ \E writeOk \in BOOLEAN : saveConfig(writeOk)
  \/ resetConfig

Spec == Init /\ [][Next]_vars

\* the chat without the settings panel, with every outcome of the HTTP exchange
NextChat ==
  \/ Tick
  \/ \E v \in InputTexts : setInput(v)
  \/ sendMessage
  \/ testConnection
  \/ \E i \in 1..Len(pending), http \in HttpOutcomes : relayExecute(i, http)
  \/ \E i \in 1..Len(pending) : sendMessageResume(i)
  \/ \E i \in 1..Len(pending) : testConnectionResume(i)
  \/ clearChat

ChatSpec == Init /\ [][NextChat]_vars

\* sendMessage on its own: nothing but typing, sending and the relay
NextSend ==
  \/ Tick
  \/ \E v \in InputTexts : setInput(v)
  \/ sendMessage
  \/ \E i \in 1..Len(pending), http \in HttpOutcomes : relayExecute(i, http)
  \/ \E i \in 1..Len(pending) : sendMessageResume(i)

SendSpec == Init /\ [][NextSend]_vars

\* the event loop runs the continuation of an await once its promise has settled
Resume == \E i \in 1..Len(pending) : sendMessageResume(i) \/ testConnectionResume(i)

FairSpec == Init /\ [][Next]_vars /\ WF_vars(Resume)

\* the settings on their own: the window opens on any stored text, and the
\* fields are explored with every text of the settings
ConfigInit ==
  /\ screen \in Screens
  /\ storage \in (IF screen = AppTsx THEN {NoItem} ELSE SettingsStoredItems)
  /\ config = loadConfig(screen, storage)
  /\ tempConfig = config
  /\ messages = <<>>
  /\ input = <<>>
  /\ isLoading = FALSE
  /\ showConfig = FALSE
  /\ pending = <<>>
  /\ now = 0
  /\ notice = <<>>
  /\ dropped = "none"

NextConfig ==
  \/ Tick
  \/ clearChat
  \/ toggleConfigPanel
  \/ cancelConfig
  \/ \E v \in SettingsUrlTexts : editBaseUrl(v)
  \/ \E v \in SettingsModelTexts : editModel(v)
  \/ \E writeOk \in BOOLEAN : saveConfig(writeOk)
  \/ resetConfig

ConfigSpec == ConfigInit /\ [][NextConfig]_vars

\* the window with scripts other than the screen's handlers at work in it
NextBridge ==
  \/ \E v \in InputTexts : setInput(v)
  \/ sendMessage
  \/ testConnection
  \/ \E i \in 1..Len(pending), http \in CommonOutcomes : relayExecute(i, http)
  \/ \E i \in 1..Len(pending) : sendMessageResume(i)
  \/ \E i \in 1..Len(pending) : testConnectionResume(i)
  \/ \E f \in Senders, ch \in Channels \cup {NoChannel} : scriptCall(f, ch)
  \/ \E i \in 1..Len(pending) : scriptResume(i)

BridgeSpec == Init /\ [][NextBridge]_vars

\* ----------------------------------------------------------------- claims
\* the texts sendMessage accepts, as it stores them
AcceptedTexts == {trim(v) : v \in InputTexts} \ {<<>>}

\* C1: a send on its own, from an empty transcript with isLoading false, appends
\* one user entry holding the trimmed text before the relay is invoked and one
\* assistant entry after the promise has settled, resolved or rejected; no
\* assistant entry is ever without its user entry right before it.
C1_SendAppendsUserThenAssistant ==
  /\ \A i \in 1..Len(messages) :
       /\ messages[i].role = (IF i % 2 = 1 THEN "user" ELSE "assistant")
       /\ i % 2 = 1 => messages[i].content \in AcceptedTexts
  /\ pending # <<>> =>
       /\ Len(messages) % 2 = 1
       /\ LET sent == pending[1].descriptor.body.messages
          IN sent[Len(sent)] = [role |-> "user", content |-> messages[Len(messages)].content]
  /\ pending = <<>> => Len(messages) % 2 = 0

\* a send has run to its end: the user entry and the assistant entry are there
C1_Witness ==
  /\ Len(messages) = 2
  /\ pending = <<>>
  /\ ~isLoading
  /\ messages[2].role = "assistant"

\* C2: while isLoading is true, sendMessage and a click on the connection test
\* button change nothing: the transcript, the calls in flight, isLoading, the
\* message box and the configuration stay as they are.
C2_BusyDropsSendAndTest ==
  [][(isLoading /\ (sendMessage \/ testConnection)) =>
       UNCHANGED <<messages, pending, isLoading, input, config, tempConfig, storage>>]_vars

\* sendMessage was invoked with a non-blank text while a call was in flight
C2_Witness ==
  /\ isLoading
  /\ dropped = "sendMessage"
  /\ trim(input) # <<>>
  /\ Len(pending) = 1

\* C3: at most one call of callLMStudioAPI is in flight, whatever the
\* interleaving of the handlers and the completions.
C3_AtMostOneInFlight == Len(pending) <= 1

\* a call is in flight and a click on the connection test button was dropped
C3_Witness ==
  /\ Len(pending) = 1
  /\ dropped = "testConnection"

\* C4: every step keeps the entries of the transcript, in order, and adds at
\* most one at the end; clearChat alone removes entries, and it removes all.
C4_TranscriptAppendOnly ==
  [][IF clearChat
       THEN messages' = <<>>
       ELSE /\ Len(messages') \in {Len(messages), Len(messages) + 1}
            /\ SubSeq(messages', 1, Len(messages)) = messages]_vars

\* an entry was appended behind another one
C4_Witness ==
  /\ Len(messages) = 2
  /\ messages[1].role = "assistant"
  /\ messages[2].role = "assistant"

\* C6: isLoading is true as long as a call is in flight.
C6_BusyWhileInFlight == pending # <<>> => isLoading

\* the promise of the call in flight has settled, the transcript was cleared
\* meanwhile, and the continuation has not run yet
C6_Witness ==
  /\ Len(pending) = 1
  /\ pending[1].op = "sendMessage"
  /\ pending[1].result.settled = "rejected"
  /\ messages = <<>>
  /\ isLoading

\* a call whose promise has settled and whose continuation has not run
Settled(i) == pending[i].result.settled # "no"

\* C5: a send or a connection test that is accepted sets isLoading; isLoading is
\* reset only by the continuation of a call whose promise has settled, so it
\* stays set for as long as the relay does not answer; and once the promise has
\* settled, resolved or rejected, isLoading becomes false.
C5_BusySetThenCleared ==
  /\ [][Len(pending') > Len(pending) => isLoading']_vars
  /\ [][(isLoading /\ ~isLoading') =>
          \E i \in 1..Len(pending) : Settled(i) /\ pending' = RemoveAt(pending, i)]_vars
  /\ ((\E i \in 1..Len(pending) : Settled(i)) ~> ~isLoading)

\* the promise of a connection test was rejected and isLoading is still set
C5_Witness ==
  /\ Len(pending) = 1
  /\ pending[1].op = "testConnection"
  /\ pending[1].result.settled = "rejected"
  /\ isLoading

\* C7: when the promise of a send is rejected, the transcript gains, behind the
\* user entry, one assistant entry whose content holds the error prefix, the
\* configured base URL and the model name, and isLoading is false afterwards.
C7_RejectedSendNamesConfig ==
  [][\A i \in 1..Len(pending) :
       (pending[i].result.settled = "rejected" /\ sendMessageResume(i)) =>
         /\ messages # <<>>
         /\ messages[Len(messages)].role = "user"
         /\ Len(messages') = Len(messages) + 1
         /\ SubSeq(messages', 1, Len(messages)) = messages
         /\ messages'[Len(messages')].role = "assistant"
         /\ includes(messages'[Len(messages')].content, ErrorPrefix)
         /\ includes(messages'[Len(messages')].content, pending[i].result.message)
         /\ includes(messages'[Len(messages')].content, config.baseUrl)
         /\ includes(messages'[Len(messages')].content, config.model)
         /\ ~isLoading']_vars

\* the text sendMessage accepts from the message box
Hello == <<"hello">>

\* C8: when the promise of a send resolves with a value that has a choices
\* list, the assistant entry holds the content of the first choice's message,
\* or the placeholder when the list is empty or that message or its content is
\* absent or empty; with the reply "hi" the transcript of send("hello") is the
\* user entry "hello" and the assistant entry "hi".
C8_ReplyIsFirstChoiceContent ==
  [][\A i \in 1..Len(pending) :
       (/\ pending[i].result.settled = "resolved"
        /\ "choices" \in pending[i].result.data.members
        /\ sendMessageResume(i)) =>
         LET cs == pending[i].result.data.choices
             present == /\ cs # <<>>
                        /\ "message" \in cs[1].members
                        /\ "content" \in cs[1].msgMembers
                        /\ cs[1].content # <<>>
             reply == [role |-> "assistant",
                       content |-> IF present THEN cs[1].content ELSE EmptyReply]
         IN /\ conversationHistory(messages') =
                 conversationHistory(messages) \o <<reply>>
            /\ conversationHistory(messages)[Len(messages)] =
                 [role |-> "user", content |-> Hello]
            /\ Len(messages) = 1 =>
                 conversationHistory(messages') =
                   << [role |-> "user", content |-> Hello], reply >>]_vars

\* send("hello") was answered with "hi"
C8_Witness ==
  /\ conversationHistory(messages) =
       << [role |-> "user", content |-> Hello],
          [role |-> "assistant", content |-> <<"hi">>] >>
  /\ pending = <<>>

\* the suffix of the models listing
ModelsSuffix == <<SEP, "v1", SEP, "models">>

\* C9: a connection test dispatches one GET descriptor without a body to the
\* models listing, and when the promise has settled it appends one assistant
\* entry: the success summary with the base URL if it resolved, the failure
\* summary with the base URL and the error text if it was rejected.
C9_TestAppendsSummary ==
  [][/\ (~isLoading /\ testConnection) =>
          /\ Len(pending') = Len(pending) + 1
          /\ pending'[Len(pending')].descriptor.method = "GET"
          /\ ~pending'[Len(pending')].descriptor.body.present
          /\ includes(pending'[Len(pending')].descriptor.endpoint, ModelsSuffix)
     /\ \A i \in 1..Len(pending) :
          testConnectionResume(i) =>
            /\ Len(messages') = Len(messages) + 1
            /\ messages'[Len(messages')].role = "assistant"
            /\ includes(messages'[Len(messages')].content, pending[i].config.baseUrl)
            /\ pending[i].result.settled = "resolved" =>
                 includes(messages'[Len(messages')].content, TestOkPrefix)
            /\ pending[i].result.settled = "rejected" =>
                 /\ includes(messages'[Len(messages')].content, TestErrorPrefix)
                 /\ includes(messages'[Len(messages')].content,
                             pending[i].result.message)]_vars

\* s without one trailing separator
withoutTrailingSep(s) == IF endsWith(s, SEP) THEN SubSeq(s, 1, Len(s) - 1) ELSE s

\* C10: the endpoint of a call has no doubled separator where the base URL and
\* the suffix meet: a base URL with and without a trailing separator give the
\* same endpoint.
C10_NoDoubledSeparator ==
  \A i \in 1..Len(pending) :
    LET base == pending[i].config.baseUrl
        endpoint == pending[i].descriptor.endpoint
    IN /\ ~(endpoint[Len(base)] = SEP /\ endpoint[Len(base) + 1] = SEP)
       /\ endpoint = withoutTrailingSep(base)
            \o (IF pending[i].op = "sendMessage"
                  THEN <<SEP, "v1", SEP, "chat", SEP, "completions">>
                  ELSE ModelsSuffix)

\* a string of whitespace only, the empty string included
isBlank(s) == \A i \in 1..Len(s) : s[i] = WS

\* r is s without the whitespace at its two ends
isTrimOf(r, s) ==
  /\ r # <<>>
  /\ r[1] # WS
  /\ r[Len(r)] # WS
  /\ \E a, b \in 0..Len(s) : s = [i \in 1..a |-> WS] \o r \o [i \in 1..b |-> WS]

\* f is the staged value g normalised: g without the whitespace at its ends,
\* or the default d when g is empty or blank
isNormalised(f, g, d) == IF isBlank(g) THEN f = d ELSE isTrimOf(f, g)

\* C11: saveConfig sets each field of the active configuration to the staged
\* value without the whitespace at its ends, or to that field's default when
\* the staged value is empty or blank; one field being blank does not change
\* what the other is set to.
C11_SaveNormalisesEachField ==
  [][\A writeOk \in BOOLEAN :
       saveConfig(writeOk) =>
         /\ isNormalised(config'.baseUrl, tempConfig.baseUrl,
                         <<"http:", "/", "/", "localhost:1234">>)
         /\ isNormalised(config'.model, tempConfig.model, <<"local-model">>)]_vars

\* the settings were saved with a blank API URL and a model name between
\* blanks: the URL is the default, the model name is kept
C11_Witness ==
  /\ screen = AppPersisted
  /\ ~showConfig
  /\ tempConfig = [baseUrl |-> <<WS, WS>>, model |-> <<WS, "gpt", WS>>]
  /\ config = [baseUrl |-> <<"http:", "/", "/", "localhost:1234">>, model |-> <<"gpt">>]
  /\ storage = Item(stringify(config))
  /\ Len(messages) = 1
  /\ includes(messages[1].content, SavedPrefix)

\* C12: in every state, the first one included, neither field of the active
\* configuration is empty or blank; so the configuration a call in flight was
\* built from has no blank field, and the stored copy, where it is the text of
\* an object, has no blank baseUrl or model.
C12_ConfigNeverBlank ==
  /\ ~isBlank(config.baseUrl)
  /\ ~isBlank(config.model)
  /\ \A i \in 1..Len(pending) :
       /\ ~isBlank(pending[i].config.baseUrl)
       /\ ~isBlank(pending[i].config.model)
       /\ pending[i].descriptor.body.present => ~isBlank(pending[i].descriptor.body.model)
  /\ (storage.present /\ parse(storage.text).ok) =>
       /\ "baseUrl" \in parse(storage.text).members => ~isBlank(parse(storage.text).baseUrl)
       /\ "model" \in parse(storage.text).members => ~isBlank(parse(storage.text).model)

\* C13: the active configuration changes in saveConfig and resetConfig only:
\* typing into a field of the settings, opening, closing and cancelling the
\* panel, sendMessage, the connection test, their continuations and clearChat
\* leave it as it is.
C13_ConfigChangesOnlyOnSaveOrReset ==
  [][/\ config' # config => ((\E writeOk \in BOOLEAN : saveConfig(writeOk)) \/ resetConfig)
     /\ ( \/ \E v \in BaseUrlTexts : editBaseUrl(v)
          \/ \E v \in ModelTexts : editModel(v)
          \/ toggleConfigPanel
          \/ cancelConfig
          \/ sendMessage
          \/ testConnection
          \/ clearChat ) => config' = config]_vars

\* the defaults as they are documented: http://localhost:1234 and local-model
DocumentedDefaults ==
  [baseUrl |-> <<"http:", "/", "/", "localhost:1234">>, model |-> <<"local-model">>]

\* C14: resetConfig, in whatever state it is invoked and whether or not the
\* settings were ever saved, leaves the active and the staged configuration
\* equal to the documented defaults, leaves no stored copy, and appends one
\* confirmation entry to the transcript.
C14_ResetYieldsDefaults ==
  [][resetConfig =>
       /\ config' = DocumentedDefaults
       /\ tempConfig' = DocumentedDefaults
       /\ storage' = NoItem
       /\ Len(messages') = Len(messages) + 1
       /\ SubSeq(messages', 1, Len(messages)) = messages
       /\ messages'[Len(messages')].role = "assistant"
       /\ includes(messages'[Len(messages')].content, ResetPrefix)]_vars

\* the settings were reset: the confirmation is the only entry, the panel is
\* still open and nothing is stored
C14_Witness ==
  /\ screen = AppPersisted
  /\ showConfig
  /\ Len(messages) = 1
  /\ includes(messages[1].content, ResetPrefix)
  /\ config = DocumentedDefaults
  /\ tempConfig = DocumentedDefaults
  /\ storage = NoItem

\* C15: when localStorage.setItem throws in saveConfig, the active
\* configuration is the normalised staged one all the same, the failure is
\* reported by an alert, the transcript gains no entry and the stored copy is
\* as it was.
C15_FailedWriteStillUpdatesConfig ==
  [][saveConfig(FALSE) =>
       /\ isNormalised(config'.baseUrl, tempConfig.baseUrl, DocumentedDefaults.baseUrl)
       /\ isNormalised(config'.model, tempConfig.model, DocumentedDefaults.model)
       /\ notice' = SaveFailedNotice
       /\ messages' = messages
       /\ storage' = storage]_vars

\* a save whose write failed: the alert is up, the active configuration is the
\* normalised staged one and differs from what is stored
C15_Witness ==
  /\ notice = SaveFailedNotice
  /\ showConfig
  /\ messages = <<>>
  /\ tempConfig = [baseUrl |-> <<WS, "http:", SEP, SEP, "host:8080", WS>>, model |-> <<>>]
  /\ config = [baseUrl |-> <<"http:", SEP, SEP, "host:8080">>, model |-> <<"local-model">>]
  /\ loadConfig(screen, storage) # config

\* C16: the stored configuration round-trips.  A window that opens on no
\* stored text, or on a text that is not well-formed JSON, starts from the
\* documented defaults; and after a saveConfig whose write succeeds the stored
\* text is that of an object whose baseUrl and model are those of the active
\* configuration, and a window opening on it starts from that configuration.
C16_PersistedRoundTrips ==
  /\ (~storage.present \/ ~parse(storage.text).ok) => config = DocumentedDefaults
  /\ [][saveConfig(TRUE) =>
          /\ storage'.present
          /\ parse(storage'.text).ok
          /\ parse(storage'.text).members = {"baseUrl", "model"}
          /\ parse(storage'.text).baseUrl = config'.baseUrl
          /\ parse(storage'.text).model = config'.model
          /\ loadConfig(screen, storage') = config']_vars

\* a model name holding a quote and a backslash was saved and is read back
C16_Witness ==
  /\ screen = AppPersisted
  /\ ~showConfig
  /\ config.model = <<"my", QUOTE, "model", BSL>>
  /\ storage.present
  /\ Len(storage.text) > Len(config.baseUrl) + Len(config.model) + 14
  /\ loadConfig(screen, storage) = config
  /\ Len(messages) = 1
  /\ includes(messages[1].content, SavedPrefix)

\* C17: clearChat leaves an empty transcript whatever it held, and nothing
\* else changes: isLoading, the message box, the active and the staged
\* configuration, the stored copy and the calls in flight stay as they are; on
\* an empty transcript it changes nothing at all, so a second clearChat leaves
\* the state the first one left.
C17_ClearEmptiesTranscriptOnly ==
  [][clearChat =>
       /\ messages' = <<>>
       /\ UNCHANGED <<isLoading, input, config, tempConfig, showConfig, storage, pending>>
       /\ messages = <<>> => messages' = messages]_vars

\* the transcript was cleared while the call of a send was in flight: the user
\* entry is gone from the transcript and still part of the request
C17_Witness ==
  /\ messages = <<>>
  /\ isLoading
  /\ Len(pending) = 1
  /\ pending[1].op = "sendMessage"
  /\ pending[1].result.settled = "no"
  /\ Len(pending[1].descriptor.body.messages) = 1

\* C18: whatever leaves the UI process leaves it through
\* electronAPI.callLMStudioAPI: every message to the main process is an invoke
\* on the channel call-lm-studio-api made by that function, and no network call
\* is made from the window itself.
C18_BridgeExposesOnlyRelay ==
  \A i \in 1..Len(pending) :
    /\ pending[i].api = CallLMStudioAPI
    /\ pending[i].sent.kind = "invoke"
    /\ pending[i].sent.channel = RelayChannel

\* C19: the bridge passes things through.  What callLMStudioAPI sends is the
\* descriptor the handler of the screen gave it; what the relay handler is
\* given is that descriptor, endpoint, method and body; and the promise of the
\* screen settles as the promise of the relay handler did for it: resolved
\* with the same value, or rejected with an error that carries the message of
\* the relay's.
C19_BridgeIsPassThrough ==
  \A i \in 1..Len(pending) :
    /\ pending[i].sent.channel = RelayChannel
    /\ pending[i].sent.args = pending[i].descriptor
    /\ pending[i].result.settled = pending[i].outcome.settled
    /\ pending[i].result.settled # "no" =>
         /\ pending[i].received.endpoint = pending[i].descriptor.endpoint
         /\ pending[i].received.method = pending[i].descriptor.method
         /\ pending[i].received.body = pending[i].descriptor.body
    /\ pending[i].outcome.settled = "resolved" =>
         /\ pending[i].result.type = pending[i].outcome.type
         /\ pending[i].result.data = pending[i].outcome.data
    /\ pending[i].outcome.settled = "rejected" =>
         includes(pending[i].result.message, pending[i].outcome.message)

\* the relay handler was given the descriptor of a send, body included, and
\* threw; the promise of the screen is rejected
C19_Witness ==
  /\ Len(pending) = 1
  /\ pending[1].op = "sendMessage"
  /\ pending[1].received.body.present
  /\ pending[1].received.body.messages = pending[1].descriptor.body.messages
  /\ pending[1].outcome.settled = "rejected"
  /\ pending[1].result.settled = "rejected"

\* the success statuses of HTTP
SuccessStatuses == 200..299

\* C20: what the relay handler's promise settles to is decided by the HTTP
\* exchange.  It resolves, with a value of type json that holds the decoded
\* body, exactly when the status is a success status and the body is
\* well-formed JSON; with another status it is rejected with an error that
\* holds the status, whatever the body is; with a success status and a body
\* that is not JSON it is rejected with the parser's error; when fetch fails it
\* is rejected; and a rejection reaches the caller as a rejection.
C20_RelayOutcomeFollowsHttp ==
  [][\A i \in 1..Len(pending), http \in HttpOutcomes :
       relayExecute(i, http) =>
         LET out == pending'[i].outcome
             success == ~http.failed /\ http.status \in SuccessStatuses
         IN /\ out.settled \in {"resolved", "rejected"}
            /\ out.settled = "resolved" <=> (success /\ http.body.wellFormed)
            /\ out.settled = "resolved" =>
                 /\ out.type = "json"
                 /\ out.data = http.body.value
            /\ (~http.failed /\ ~success) =>
                 /\ out.name = "Error"
                 /\ includes(out.message, <<numStr(http.status)>>)
            /\ (success /\ ~http.body.wellFormed) => out.name = "SyntaxError"
            /\ pending'[i].result.settled = out.settled]_vars

\* the server answered 404 with a body that is JSON: the relay handler threw
\* the status and returned nothing of the body
C20_Witness ==
  /\ Len(pending) = 1
  /\ pending[1].outcome.settled = "rejected"
  /\ pending[1].outcome.name = "Error"
  /\ pending[1].outcome.message = <<"HTTP error! status: ", "404">>
  /\ pending[1].result.settled = "rejected"

\* C21: nothing is retried.  An accepted sendMessage or connection test hands
\* one descriptor to the bridge, and its continuation hands over none, whether
\* the call succeeded or failed; the relay handler makes one HTTP call for a
\* message it is given, whatever that call ends as, and is not run again for
\* it.
C21_NothingIsRetried ==
  /\ [](\A i \in 1..Len(pending) :
          pending[i].fetches = (IF pending[i].outcome.settled = "no" THEN 0 ELSE 1))
  /\ [][/\ ((sendMessage \/ testConnection) /\ pending' # pending) =>
             /\ Len(pending') = Len(pending) + 1
             /\ SubSeq(pending', 1, Len(pending)) = pending
             /\ pending'[Len(pending')].fetches = 0
        /\ \A i \in 1..Len(pending) :
             (sendMessageResume(i) \/ testConnectionResume(i)) =>
               pending' = RemoveAt(pending, i)
        /\ \A i \in 1..Len(pending), http \in HttpOutcomes :
             relayExecute(i, http) =>
               /\ pending[i].fetches = 0
               /\ pending'[i].fetches = 1
               /\ Len(pending') = Len(pending)]_vars

\* the HTTP call of a connection test failed: one call was made and the
\* continuation has not run yet
C21_Witness ==
  /\ Len(pending) = 1
  /\ pending[1].op = "testConnection"
  /\ pending[1].outcome.settled = "rejected"
  /\ pending[1].outcome.name = "TypeError"
  /\ pending[1].fetches = 1

\* C22: the descriptor of an accepted sendMessage has the method POST and a
\* body that holds the configured model name, temperature 0.7, max_tokens 1000,
\* stream false, and as messages the whole transcript as it stood when
\* sendMessage was invoked, entry by entry in order and whatever made the
\* entry, each as its role and content only, followed by the new user message.
C22_SendBodyIsTranscriptPlusUser ==
  [][(sendMessage /\ pending' # pending) =>
       LET d == pending'[Len(pending')].descriptor
       IN /\ d.method = "POST"
          /\ d.body.present
          /\ d.body.model = config.model
          /\ d.body.temperature = "0.7"
          /\ d.body.max_tokens = 1000
          /\ d.body.stream = FALSE
          /\ Len(d.body.messages) = Len(messages) + 1
          /\ \A k \in 1..Len(messages) :
               d.body.messages[k] =
                 [role |-> messages[k].role, content |-> messages[k].content]
          /\ d.body.messages[Len(messages) + 1].role = "user"
          /\ isTrimOf(d.body.messages[Len(messages) + 1].content, input)
          /\ DOMAIN d.body.messages[Len(messages) + 1] = {"role", "content"}]_vars

\* a send is in flight whose history starts with the confirmation of a reset
C22_Witness ==
  /\ Len(pending) = 1
  /\ pending[1].op = "sendMessage"
  /\ Len(pending[1].descriptor.body.messages) = 2
  /\ pending[1].descriptor.body.messages[1].role = "assistant"
  /\ includes(pending[1].descriptor.body.messages[1].content, ResetPrefix)
  /\ pending[1].descriptor.body.messages[2] = [role |-> "user", content |-> <<"hello">>]

\* C23: when the promise of a send resolves with JSON of an unexpected shape,
\* null or an object without choices, the assistant entry is an error entry
\* that carries the invalid-response message; when the choices are there and
\* only the content of the first one is missing or empty, the entry is the
\* placeholder reply and no error.
C23_UnexpectedShapeIsInvalidResponse ==
  [][\A i \in 1..Len(pending) :
       (pending[i].result.settled = "resolved" /\ sendMessageResume(i)) =>
         LET d == pending[i].result.data
             entry == messages'[Len(messages')]
         IN /\ entry.role = "assistant"
            /\ (~d.truthy \/ "choices" \notin d.members) =>
                 /\ includes(entry.content, ErrorPrefix)
                 /\ includes(entry.content, InvalidFormat)
            /\ (d.truthy /\ "choices" \in d.members /\ firstContent(d) = <<>>) =>
                 entry.content = EmptyReply]_vars

\* C24: in every transcript the ids are pairwise distinct and grow strictly
\* from one entry to the next, however the clock advances between the handlers
\* and however sends, completions, connection tests, saves and resets
\* interleave.
C24_IdsStrictlyIncreasing ==
  \A i, j \in 1..Len(messages) : i < j => messages[i].id < messages[j].id

\* C25: sendMessage on a message box that is empty or blank changes nothing,
\* whether isLoading is set or not: transcript, message box, isLoading,
\* configuration and the calls in flight stay as they are.  A sendMessage that
\* is accepted appends the user entry with the text without the whitespace at
\* its ends, empties the message box and dispatches one call.
C25_BlankSendIsNoOp ==
  [][sendMessage =>
       IF isBlank(input)
         THEN UNCHANGED <<messages, input, isLoading, config, tempConfig, storage, pending>>
         ELSE ~isLoading =>
                /\ Len(messages') = Len(messages) + 1
                /\ SubSeq(messages', 1, Len(messages)) = messages
                /\ messages'[Len(messages')].role = "user"
                /\ isTrimOf(messages'[Len(messages')].content, input)
                /\ input' = <<>>
                /\ Len(pending') = Len(pending) + 1]_vars

\* sendMessage was invoked on a blank message box while nothing was in flight
C25_Witness ==
  /\ dropped = "sendMessage"
  /\ input = <<WS>>
  /\ ~isLoading
  /\ pending = <<>>
  /\ messages = <<>>

\* C26: clearChat does not cancel a call.  It can be invoked while a call is
\* in flight, it leaves the call in flight, and the continuation of a send
\* appends its assistant entry to whatever the transcript then is: to the empty
\* transcript too, which then holds an assistant entry with no user entry
\* before it.
C26_ClearDoesNotCancel ==
  /\ [](isLoading => ENABLED clearChat)
  /\ [][/\ clearChat => pending' = pending
        /\ \A i \in 1..Len(pending) :
             sendMessageResume(i) =>
               /\ Len(messages') = Len(messages) + 1
               /\ SubSeq(messages', 1, Len(messages)) = messages
               /\ messages'[Len(messages')].role = "assistant"
               /\ messages = <<>> => messages'[1].role = "assistant"]_vars

\* the reply of a send is the only entry: the transcript was cleared while the
\* call was in flight
C26_Witness ==
  /\ Len(messages) = 1
  /\ messages[1].role = "assistant"
  /\ messages[1].content = <<"hi">>
  /\ messages[1].id = messages[1].timestamp + 1
  /\ pending = <<>>
  /\ ~isLoading

\* C27: a send and a test use the configuration that is active when they are
\* invoked.  The call is dispatched to the endpoint, and a send with the model,
\* of that configuration; no step that keeps the call in flight, a save or a
\* reset of the settings included, changes what was dispatched; and the base
\* URL and the model name written into the resulting entry (part_000) are those
\* of the invocation, whatever the configuration is by then.
C27_ConfigOfTheInvocation ==
  [][/\ ((sendMessage \/ testConnection) /\ pending' # pending) =>
          LET call == pending'[Len(pending')]
          IN /\ call.config = config
             /\ call.op = "sendMessage" =>
                  /\ call.descriptor.endpoint = chatUrl(screen, config.baseUrl)
                  /\ call.descriptor.body.model = config.model
             /\ call.op = "testConnection" =>
                  call.descriptor.endpoint = modelsUrl(screen, config.baseUrl)
     /\ ((\E w \in BOOLEAN : saveConfig(w)) \/ resetConfig) => pending' = pending
     /\ Len(pending') >= Len(pending) =>
          \A i \in 1..Len(pending) :
            /\ pending'[i].config = pending[i].config
            /\ pending'[i].descriptor = pending[i].descriptor
            /\ pending'[i].fetches > 0 => pending'[i].received = pending[i].descriptor
     /\ \A i \in 1..Len(pending) :
          /\ (sendMessageResume(i) /\ screen = AppPersisted
                /\ includes(messages'[Len(messages')].content, ErrorPrefix)) =>
               /\ includes(messages'[Len(messages')].content, pending[i].config.baseUrl)
               /\ includes(messages'[Len(messages')].content, pending[i].config.model)
          /\ (testConnectionResume(i) /\ screen = AppPersisted) =>
               includes(messages'[Len(messages')].content, pending[i].config.baseUrl)]_vars

\* the settings were reset while a send was in flight: the error entry behind
\* the confirmation of the reset names a model that is not the active one
C27_Witness ==
  /\ screen = AppPersisted
  /\ Len(messages) = 2
  /\ includes(messages[1].content, ResetPrefix)
  /\ includes(messages[2].content, ErrorPrefix)
  /\ ~includes(messages[2].content, config.model)
  /\ config = DEFAULT_CONFIG
  /\ pending = <<>>

\* C28: the relay holds no state shared between invocations.  With two calls
\* delivered and neither settled it can process either one first; processing
\* one fetches the descriptor of that call, settles that call with what its own
\* HTTP exchange gave, and leaves the other call as it was; so every settled
\* call holds the result or the failure for its own descriptor.
C28_RelaySharesNoState ==
  /\ [](\A i \in 1..Len(pending) :
          /\ (pending[i].sent.kind = "invoke" /\ pending[i].sent.channel = RelayChannel
                /\ pending[i].result.settled = "no") =>
               ENABLED (\E http \in CommonOutcomes : relayExecute(i, http))
          /\ pending[i].fetches > 0 =>
               /\ pending[i].received = pending[i].descriptor
               /\ pending[i].result = invokeSettles(RelayChannel, pending[i].outcome))
  /\ [][\A i \in 1..Len(pending), http \in CommonOutcomes :
          relayExecute(i, http) =>
            /\ Len(pending') = Len(pending)
            /\ pending'[i].received = pending[i].descriptor
            /\ pending'[i].outcome = relayHandle(http)
            /\ \A j \in 1..Len(pending) : j # i => pending'[j] = pending[j]]_vars

\* two calls with different descriptors were in flight together and both are
\* settled, one resolved and one rejected, each for the descriptor it sent
C28_Witness ==
  /\ Len(pending) = 2
  /\ pending[1].descriptor # pending[2].descriptor
  /\ pending[1].received = pending[1].descriptor
  /\ pending[2].received = pending[2].descriptor
  /\ pending[1].result.settled = "rejected"
  /\ pending[2].result.settled = "resolved"

====
